---- MODULE Spec2Model ----
(***************************************************************************)
(* Model of SceneManager (Source/SceneManager.cpp): the bounded texture    *)
(* registry with its lookups and teardown, the material registry with its  *)
(* lookup and upload, and the model-matrix composition.                     *)
(*                                                                          *)
(* Tags are modelled as integers: 0 stands for the constructor's "/0"       *)
(* string, 1, 2, ... for caller-chosen tag strings.  OpenGL texture names   *)
(* are the positive integers in the order glGenTextures hands them out.     *)
(***************************************************************************)
EXTENDS Integers, Sequences, FiniteSets, TLC

VARIABLES
    m_pShaderManager,   \* "valid" or "NULL"
    m_basicMeshes,      \* "allocated" or "NULL"
    m_textureIDs,       \* [0..15 -> [tag, ID]]: the m_textureIDs[16] array
    m_loadedTextures,   \* int m_loadedTextures
    overrun,            \* what a store past m_textureIDs[15] left behind
    glGenCount,         \* texture names handed out by glGenTextures so far
    glTextures,         \* texture names that exist and were never deleted
    stbImages,          \* decoded image buffers not yet stbi_image_free'd
    glActive,           \* the unit glActiveTexture selected (GL_TEXTURE0 + n)
    glUnits,            \* [unit -> texture name bound to its GL_TEXTURE_2D, 0 if none]
    bUseTexture,        \* shader uniform "bUseTexture"
    objectTexture,      \* shader uniform "objectTexture" (sampler index)
    objectColor,        \* shader uniform "objectColor" (r, g, b, a in hundredths)
    UVscale,            \* shader uniform "UVscale" (u, v in hundredths)
    bUseLighting,       \* shader uniform "bUseLighting"
    activeLights,       \* the lights whose bActive uniform is set
    loadedMeshes,       \* the meshes m_basicMeshes has loaded
    pc,                 \* the next call of PrepareScene / RenderScene
    cycle,              \* the calls RenderScene made since the previous draw
    state,              \* "live", "destroyed", "overrun" or "crashed"
    registered,         \* history: <<[tag, ID]>> of the calls that returned true
    m_objectMaterials,  \* std::vector<OBJECT_MATERIAL>, as a sequence
    matUniform,         \* shader uniforms material.{diffuseColor,specularColor,shininess}
    modelUniform,       \* shader uniform "model" (4x4, [row][column])
    xfArgs,             \* the arguments the caller hands to SetTransformations
    ret                 \* the last call: [op, tag, arg, ok, val]; for FindMaterial
                        \* arg and val are the caller's material before and after

vars == <<m_pShaderManager, m_basicMeshes, m_textureIDs, m_loadedTextures,
          overrun, glGenCount, glTextures, stbImages, glActive, glUnits,
          bUseTexture, objectTexture, objectColor, UVscale, bUseLighting,
          activeLights, loadedMeshes, pc, cycle, state, registered, m_objectMaterials, matUniform,
          modelUniform, xfArgs, ret>>

objVars == <<m_pShaderManager, m_basicMeshes>>
regVars == <<m_textureIDs, m_loadedTextures, overrun, registered>>
glVars == <<glGenCount, glTextures, stbImages>>
bindVars == <<glActive, glUnits>>
texUniforms == <<bUseTexture, objectTexture>>
matVars == <<m_objectMaterials, matUniform>>
xfVars == <<modelUniform, xfArgs>>
sceneVars == <<objectColor, UVscale, bUseLighting, activeLights, loadedMeshes>>
progVars == <<pc, cycle>>

\* ---------------------------------------------------------------- constants
MaxTextures == 16       \* capacity of m_textureIDs
NoTag == 0              \* the "/0" tag the constructor stores
NoID == -1              \* the ID the constructor stores, and the miss sentinel

\* ------------------------------------------------------------------- bounds
MaxBadChannel == 1      \* calls that decode to an unsupported channel count
NumTags == 2            \* caller tags 1..NumTags when tags may repeat
MaxLoaded == 3          \* registrations followed when tags may repeat
MaxGarbage == 1         \* indeterminate values range over 0..MaxGarbage
MaxMaterials == 2       \* materials in the vector before the first call
NumVariants == 2        \* distinct colour/shininess settings per tag
MaxCoord == 1           \* translations in 0..MaxCoord, scales in 1..MaxCoord+1
MaxQuarterTurns == 3    \* rotations of 0, 90, ... 90*MaxQuarterTurns degrees

\* what stbi_load can hand back: no image, or an image with 1..4 channels
DecodeResults ==
    {[image |-> FALSE, colorChannels |-> 0]} \cup
    {[image |-> TRUE, colorChannels |-> c] : c \in 1..4}

NoArg == [image |-> FALSE, colorChannels |-> 0]

Call(op, tag, arg, ok, val) ==
    [op |-> op, tag |-> tag, arg |-> arg, ok |-> ok, val |-> val]

\* ------------------------------------------------------------- construction
ZeroMatrix == [r \in 1..4 |-> [c \in 1..4 |-> 0]]

NoTransform ==
    [scaleXYZ |-> <<1, 1, 1>>, XrotationDegrees |-> 0, YrotationDegrees |-> 0,
     ZrotationDegrees |-> 0, positionXYZ |-> <<0, 0, 0>>]

\* The object as the constructor leaves it, with no call made yet.  The
\* constructor is handed the application's shader manager, taken to be a valid
\* object.  ID keeps the -1 the source assigns; only populated slots are read.
Constructed ==
    /\ matUniform = [diffuseColor |-> <<0, 0, 0>>, specularColor |-> <<0, 0, 0>>,
                     shininess |-> 0]
    /\ m_pShaderManager = "valid"
    /\ m_basicMeshes = "allocated"
    /\ m_textureIDs = [i \in 0..(MaxTextures - 1) |-> [tag |-> NoTag, ID |-> NoID]]
    /\ m_loadedTextures = 0
    /\ overrun = <<>>
    /\ glGenCount = 0
    /\ glTextures = {}
    /\ stbImages = 0
    /\ glActive = 0
    /\ glUnits = [u \in 0..(MaxTextures - 1) |-> 0]
    /\ bUseTexture = FALSE
    /\ objectTexture = 0
    /\ objectColor = <<0, 0, 0, 0>>
    /\ UVscale = <<0, 0>>
    /\ bUseLighting = FALSE
    /\ activeLights = {}
    /\ loadedMeshes = {}
    /\ pc = 1
    /\ cycle = <<>>
    /\ state = "live"
    /\ registered = <<>>
    /\ ret = Call("SceneManager", NoTag, NoArg, TRUE, 0)

Init ==
    /\ Constructed
    /\ m_objectMaterials = <<>>
    /\ modelUniform = ZeroMatrix
    /\ xfArgs = NoTransform

\* ---------------------------------------------------------- CreateGLTexture
ChannelsSupported_Any(colorChannels) == colorChannels >= 2

\* the colorChannels == 3 / == 4 branches that upload the pixels
ChannelsSupported(colorChannels) == colorChannels = 3 \/ colorChannels = 4

RegisterTexture_IDOnly(ids, n, textureID, tag) ==
    [ids EXCEPT ![n].ID = textureID]

RegisterTexture_SlotZero(ids, n, textureID, tag) ==
    [ids EXCEPT ![0] = [tag |-> tag, ID |-> textureID]]

\* m_textureIDs[m_loadedTextures].ID = textureID; .tag = tag
RegisterTexture(ids, n, textureID, tag) ==
    [ids EXCEPT ![n] = [tag |-> tag, ID |-> textureID]]

\* The store at index m_loadedTextures when the array is already full is
\* outside the array: the process faults, or the store lands in whatever
\* follows the array and the call goes on to count it and return true.
OverrunOutcomes == {"crashed", "overrun"}

CreateGLTexture(dec, tag) ==
    /\ state = "live"
    /\ UNCHANGED <<objVars, texUniforms, matVars, xfVars, sceneVars>>
    /\ IF dec.image
       THEN LET textureID == glGenCount + 1 IN
            /\ glGenCount' = textureID
            /\ glTextures' = glTextures \cup {textureID}
            \* glBindTexture(GL_TEXTURE_2D, textureID), undone by the
            \* glBindTexture(GL_TEXTURE_2D, 0) of the path that registers
            /\ glActive' = glActive
            /\ glUnits' = [glUnits EXCEPT ![glActive] =
                              IF ChannelsSupported(dec.colorChannels)
                              THEN 0 ELSE textureID]
            /\ IF ChannelsSupported(dec.colorChannels)
               THEN /\ stbImages' = stbImages
                    /\ IF m_loadedTextures < MaxTextures
                       THEN /\ m_textureIDs' = RegisterTexture(m_textureIDs,
                                                 m_loadedTextures, textureID, tag)
                            /\ m_loadedTextures' = m_loadedTextures + 1
                            /\ registered' = Append(registered,
                                                 [tag |-> tag, ID |-> textureID])
                            /\ ret' = Call("CreateGLTexture", tag, dec, TRUE, 1)
                            /\ UNCHANGED <<overrun, state>>
                       ELSE \E outcome \in OverrunOutcomes :
                            /\ state' = outcome
                            /\ m_textureIDs' = m_textureIDs
                            /\ IF outcome = "overrun"
                               THEN /\ overrun' = <<[tag |-> tag, ID |-> textureID]>>
                                    /\ m_loadedTextures' = m_loadedTextures + 1
                                    /\ registered' = Append(registered,
                                                 [tag |-> tag, ID |-> textureID])
                                    /\ ret' = Call("CreateGLTexture", tag, dec, TRUE, 1)
                               ELSE /\ ret' = Call("CreateGLTexture", tag, dec, FALSE, 0)
                                    /\ UNCHANGED <<overrun, m_loadedTextures, registered>>
               ELSE \* return false with the image and the texture still held
                    /\ stbImages' = stbImages + 1
                    /\ ret' = Call("CreateGLTexture", tag, dec, FALSE, 0)
                    /\ UNCHANGED <<m_textureIDs, m_loadedTextures, overrun,
                                   state, registered>>
       ELSE /\ ret' = Call("CreateGLTexture", tag, dec, FALSE, 0)
            /\ UNCHANGED <<m_textureIDs, m_loadedTextures, overrun, glGenCount,
                           glTextures, stbImages, bindVars, state, registered>>

\* ------------------------------------------------------- DestroyGLTextures
\* glGenTextures(1, &m_textureIDs[i].ID) for i < m_loadedTextures
RECURSIVE DestroyLoop(_, _, _)
DestroyLoop(ids, i, gen) ==
    IF i < m_loadedTextures
    THEN DestroyLoop([ids EXCEPT ![i].ID = gen + 1], i + 1, gen + 1)
    ELSE ids

Destructor ==
    /\ state = "live"
    /\ m_pShaderManager' = "NULL"
    /\ m_basicMeshes' = "NULL"
    /\ m_textureIDs' = DestroyLoop(m_textureIDs, 0, glGenCount)
    /\ glGenCount' = glGenCount + m_loadedTextures
    /\ glTextures' = glTextures \cup ((glGenCount + 1)..(glGenCount + m_loadedTextures))
    /\ state' = "destroyed"
    /\ ret' = Call("~SceneManager", NoTag, NoArg, TRUE, 0)
    /\ UNCHANGED <<m_loadedTextures, overrun, registered, stbImages, bindVars,
                   texUniforms, matVars, xfVars, sceneVars>>

\* ----------------------------------------------------------- BindGLTextures
RECURSIVE BindLoop_ActiveUnit(_, _)
BindLoop_ActiveUnit(b, i) ==
    IF i < m_loadedTextures
    THEN BindLoop_ActiveUnit([active |-> b.active,
              units |-> [b.units EXCEPT ![b.active] = m_textureIDs[i].ID]], i + 1)
    ELSE b

\* glActiveTexture(GL_TEXTURE0 + i); glBindTexture(GL_TEXTURE_2D, m_textureIDs[i].ID)
RECURSIVE BindLoop(_, _)
BindLoop(b, i) ==
    IF i < m_loadedTextures
    THEN BindLoop([active |-> i,
                   units |-> [b.units EXCEPT ![i] = m_textureIDs[i].ID]], i + 1)
    ELSE b

BindGLTextures ==
    /\ state = "live"
    /\ LET b == BindLoop([active |-> glActive, units |-> glUnits], 0) IN
       /\ glActive' = b.active
       /\ glUnits' = b.units
    /\ ret' = Call("BindGLTextures", NoTag, NoArg, TRUE, 0)
    /\ UNCHANGED <<objVars, regVars, glVars, texUniforms, state, matVars, xfVars, sceneVars>>

\* ------------------------------------------------------------------ lookups
RECURSIVE FindTextureIDLoop(_, _, _, _)
FindTextureIDLoop(tag, index, bFound, textureID) ==
    IF (index < m_loadedTextures) /\ (bFound = FALSE)
    THEN IF m_textureIDs[index].tag = tag
         THEN FindTextureIDLoop(tag, index, TRUE, m_textureIDs[index].ID)
         ELSE FindTextureIDLoop(tag, index + 1, bFound, textureID)
    ELSE textureID

FindTextureID(tag) == FindTextureIDLoop(tag, 0, FALSE, -1)

RECURSIVE FindTextureSlotLoop_LastMatch(_, _, _, _)
FindTextureSlotLoop_LastMatch(tag, index, bFound, textureSlot) ==
    IF index < m_loadedTextures
    THEN IF m_textureIDs[index].tag = tag
         THEN FindTextureSlotLoop_LastMatch(tag, index + 1, TRUE, index)
         ELSE FindTextureSlotLoop_LastMatch(tag, index + 1, bFound, textureSlot)
    ELSE textureSlot

RECURSIVE FindTextureSlotLoop(_, _, _, _)
FindTextureSlotLoop(tag, index, bFound, textureSlot) ==
    IF (index < m_loadedTextures) /\ (bFound = FALSE)
    THEN IF m_textureIDs[index].tag = tag
         THEN FindTextureSlotLoop(tag, index, TRUE, index)
         ELSE FindTextureSlotLoop(tag, index + 1, bFound, textureSlot)
    ELSE textureSlot

FindTextureSlot(tag) == FindTextureSlotLoop(tag, 0, FALSE, -1)

FindTextureIDCall(tag) ==
    /\ state = "live"
    /\ ret' = Call("FindTextureID", tag, NoArg, TRUE, FindTextureID(tag))
    /\ UNCHANGED <<objVars, regVars, glVars, bindVars, texUniforms, state, matVars, xfVars, sceneVars>>

FindTextureSlotCall(tag) ==
    /\ state = "live"
    /\ ret' = Call("FindTextureSlot", tag, NoArg, TRUE, FindTextureSlot(tag))
    /\ UNCHANGED <<objVars, regVars, glVars, bindVars, texUniforms, state, matVars, xfVars, sceneVars>>

\* --------------------------------------------------------- SetShaderTexture
SetShaderTexture(textureTag) ==
    /\ state = "live"
    /\ IF m_pShaderManager # "NULL"
       THEN /\ bUseTexture' = TRUE
            /\ objectTexture' = FindTextureSlot(textureTag)
       ELSE UNCHANGED texUniforms
    /\ ret' = Call("SetShaderTexture", textureTag, NoArg, TRUE, 0)
    /\ UNCHANGED <<objVars, regVars, glVars, bindVars, state, matVars, xfVars, sceneVars>>

\* ---------------------------------------------------------------- materials
Uniforms(m) ==
    [diffuseColor |-> m.diffuseColor, specularColor |-> m.specularColor,
     shininess |-> m.shininess]

RECURSIVE FindMaterialLoop_LastMatch(_, _, _, _)
FindMaterialLoop_LastMatch(tag, index, bFound, m) ==
    IF index < Len(m_objectMaterials)
    THEN IF m_objectMaterials[index + 1].tag = tag
         THEN FindMaterialLoop_LastMatch(tag, index + 1, TRUE,
                  [m EXCEPT !.diffuseColor = m_objectMaterials[index + 1].diffuseColor,
                            !.specularColor = m_objectMaterials[index + 1].specularColor,
                            !.shininess = m_objectMaterials[index + 1].shininess])
         ELSE FindMaterialLoop_LastMatch(tag, index + 1, bFound, m)
    ELSE m

\* the while loop of FindMaterial; vector index i is sequence index i + 1
RECURSIVE FindMaterialLoop(_, _, _, _)
FindMaterialLoop(tag, index, bFound, m) ==
    IF (index < Len(m_objectMaterials)) /\ (bFound = FALSE)
    THEN IF m_objectMaterials[index + 1].tag = tag
         THEN FindMaterialLoop(tag, index, TRUE,
                  [m EXCEPT !.diffuseColor = m_objectMaterials[index + 1].diffuseColor,
                            !.specularColor = m_objectMaterials[index + 1].specularColor,
                            !.shininess = m_objectMaterials[index + 1].shininess])
         ELSE FindMaterialLoop(tag, index + 1, bFound, m)
    ELSE m

\* the bool returned and the caller's material as the call leaves it
FindMaterial(tag, m) ==
    IF Len(m_objectMaterials) = 0
    THEN [ok |-> FALSE, material |-> m]
    ELSE [ok |-> TRUE, material |-> FindMaterialLoop(tag, 0, FALSE, m)]

\* an OBJECT_MATERIAL that was declared and never assigned: its tag is the
\* empty string, its colours and shininess hold indeterminate values
Indeterminate ==
    {[tag |-> "", diffuseColor |-> <<a, a, a>>, specularColor |-> <<a, a, a>>,
      shininess |-> a] : a \in 0..MaxGarbage}

FindMaterialCall(tag, m) ==
    /\ state = "live"
    /\ LET r == FindMaterial(tag, m) IN
       ret' = Call("FindMaterial", tag, m, r.ok, r.material)
    /\ UNCHANGED <<objVars, regVars, glVars, bindVars, texUniforms, state, matVars, xfVars, sceneVars>>

SetShaderMaterial(materialTag) ==
    /\ state = "live"
    /\ IF Len(m_objectMaterials) > 0
       THEN \E local \in Indeterminate :
               LET r == FindMaterial(materialTag, local) IN
               IF r.ok = TRUE
               THEN matUniform' = Uniforms(r.material)
               ELSE matUniform' = matUniform
       ELSE matUniform' = matUniform
    /\ ret' = Call("SetShaderMaterial", materialTag, NoArg, TRUE, 0)
    /\ UNCHANGED <<objVars, regVars, glVars, bindVars, texUniforms, state,
                   m_objectMaterials, xfVars, sceneVars>>

\* colours and shininess in tenths: 0.4f is 4, 60.0 is 600
DefineObjectMaterials ==
    /\ state = "live"
    /\ m_objectMaterials' = m_objectMaterials \o
          << [tag |-> "metal", diffuseColor |-> <<4, 4, 4>>,
              specularColor |-> <<7, 7, 6>>, shininess |-> 600],
             [tag |-> "wood", diffuseColor |-> <<2, 2, 3>>,
              specularColor |-> <<0, 0, 0>>, shininess |-> 1],
             [tag |-> "glass", diffuseColor |-> <<7, 7, 7>>,
              specularColor |-> <<10, 10, 10>>, shininess |-> 900] >>
    /\ ret' = Call("DefineObjectMaterials", "", NoArg, TRUE, 0)
    /\ UNCHANGED <<objVars, regVars, glVars, bindVars, texUniforms, state, matUniform,
                   xfVars, sceneVars>>

\* ------------------------------------------------------- SetTransformations
\* 4x4 matrices are indexed [row][column]; glm stores m[column][row].
\* Angles are whole quarter turns, for which sine and cosine are integers.
Cos_(degrees) == CASE (degrees \div 90) % 4 = 0 -> 1
                   [] (degrees \div 90) % 4 = 2 -> -1
                   [] OTHER -> 0

Sin_(degrees) == CASE (degrees \div 90) % 4 = 1 -> 1
                   [] (degrees \div 90) % 4 = 3 -> -1
                   [] OTHER -> 0

\* operator*(mat4, mat4); the operands are bound once so that each is
\* evaluated a single time
MatMul(A, B) ==
    CHOOSE m \in {[r \in 1..4 |-> [c \in 1..4 |->
                     a[r][1] * b[1][c] + a[r][2] * b[2][c]
                       + a[r][3] * b[3][c] + a[r][4] * b[4][c]]] :
                  a \in {A}, b \in {B}} : TRUE

\* glm::scale(v)
glm_scale(v) ==
    << <<v[1], 0, 0, 0>>,
       <<0, v[2], 0, 0>>,
       <<0, 0, v[3], 0>>,
       <<0, 0, 0, 1>> >>

\* glm::translate(v)
glm_translate(v) ==
    << <<1, 0, 0, v[1]>>,
       <<0, 1, 0, v[2]>>,
       <<0, 0, 1, v[3]>>,
       <<0, 0, 0, 1>> >>

\* glm::rotate(glm::radians(degrees), axis) for a unit axis:
\* Rotate[col][row] = c * I + (1 - c) * axis * axis^T + s * cross(axis)
glm_rotate(degrees, axis) ==
    LET c == Cos_(degrees)
        s == Sin_(degrees)
        t == <<(1 - c) * axis[1], (1 - c) * axis[2], (1 - c) * axis[3]>>
    IN  << <<c + t[1] * axis[1], t[2] * axis[1] - s * axis[3], t[3] * axis[1] + s * axis[2], 0>>,
           <<t[1] * axis[2] + s * axis[3], c + t[2] * axis[2], t[3] * axis[2] - s * axis[1], 0>>,
           <<t[1] * axis[3] - s * axis[2], t[2] * axis[3] + s * axis[1], c + t[3] * axis[3], 0>>,
           <<0, 0, 0, 1>> >>

ModelView_XYZ(scaleXYZ, X, Y, Z, positionXYZ) ==
    MatMul(glm_translate(positionXYZ),
      MatMul(glm_rotate(X, <<1, 0, 0>>),
        MatMul(glm_rotate(Y, <<0, 1, 0>>),
          MatMul(glm_rotate(Z, <<0, 0, 1>>), glm_scale(scaleXYZ)))))

\* modelView = translation * rotationZ * rotationY * rotationX * scale
ModelView(scaleXYZ, X, Y, Z, positionXYZ) ==
    MatMul(glm_translate(positionXYZ),
      MatMul(glm_rotate(Z, <<0, 0, 1>>),
        MatMul(glm_rotate(Y, <<0, 1, 0>>),
          MatMul(glm_rotate(X, <<1, 0, 0>>), glm_scale(scaleXYZ)))))

SetTransformations(scaleXYZ, X, Y, Z, positionXYZ) ==
    /\ state = "live"
    /\ IF m_pShaderManager # "NULL"
       THEN modelUniform' = ModelView(scaleXYZ, X, Y, Z, positionXYZ)
       ELSE modelUniform' = modelUniform
    /\ xfArgs' = [scaleXYZ |-> scaleXYZ, XrotationDegrees |-> X,
                  YrotationDegrees |-> Y, ZrotationDegrees |-> Z,
                  positionXYZ |-> positionXYZ]
    /\ ret' = Call("SetTransformations", NoTag, NoArg, TRUE, 0)
    /\ UNCHANGED <<objVars, regVars, glVars, bindVars, texUniforms, state, matVars,
                   sceneVars>>

\* ------------------------------------------- colour, UV scale, lights, meshes
SetShaderColor(redColorValue, greenColorValue, blueColorValue, alphaValue) ==
    /\ state = "live"
    /\ IF m_pShaderManager # "NULL"
       THEN /\ bUseTexture' = FALSE
            /\ objectColor' = <<redColorValue, greenColorValue, blueColorValue,
                                alphaValue>>
       ELSE UNCHANGED <<bUseTexture, objectColor>>
    /\ ret' = Call("SetShaderColor", NoTag, NoArg, TRUE, 0)
    /\ UNCHANGED <<objVars, regVars, glVars, bindVars, objectTexture, state,
                   matVars, xfVars, UVscale, bUseLighting, activeLights,
                   loadedMeshes>>

SetTextureUVScale(u, v) ==
    /\ state = "live"
    /\ IF m_pShaderManager # "NULL"
       THEN UVscale' = <<u, v>>
       ELSE UVscale' = UVscale
    /\ ret' = Call("SetTextureUVScale", NoTag, NoArg, TRUE, 0)
    /\ UNCHANGED <<objVars, regVars, glVars, bindVars, texUniforms, state,
                   matVars, xfVars, objectColor, bUseLighting, activeLights,
                   loadedMeshes>>

\* the directional light and the three point lights, each set active
SetupSceneLights ==
    /\ state = "live"
    /\ bUseLighting' = TRUE
    /\ activeLights' = {"directionalLight", "pointLights[0]", "pointLights[1]",
                        "pointLights[2]"}
    /\ ret' = Call("SetupSceneLights", NoTag, NoArg, TRUE, 0)
    /\ UNCHANGED <<objVars, regVars, glVars, bindVars, texUniforms, state,
                   matVars, xfVars, objectColor, UVscale, loadedMeshes>>

\* m_basicMeshes->Load<mesh>Mesh()
LoadMesh(mesh) ==
    /\ state = "live"
    /\ loadedMeshes' = loadedMeshes \cup {mesh}
    /\ ret' = Call("LoadMesh", NoTag, NoArg, TRUE, 0)
    /\ UNCHANGED <<objVars, regVars, glVars, bindVars, texUniforms, state,
                   matVars, xfVars, objectColor, UVscale, bUseLighting,
                   activeLights>>

\* m_basicMeshes->Draw<mesh>Mesh(): reads the uniforms, writes none
DrawMesh(mesh) ==
    /\ state = "live"
    /\ ret' = Call("Draw", NoTag, NoArg, mesh \in loadedMeshes, 0)
    /\ UNCHANGED <<objVars, regVars, glVars, bindVars, texUniforms, state,
                   matVars, xfVars, sceneVars>>

\* SetTransformations as RenderScene calls it.  Its angles are not whole
\* quarter turns, so the uploaded matrix is carried as the arguments whose
\* product translation * rotationZ * rotationY * rotationX * scale it is.
\* Lengths are in hundredths.
SetTransformationsOf(a) ==
    /\ state = "live"
    /\ IF m_pShaderManager # "NULL"
       THEN modelUniform' = a
       ELSE modelUniform' = modelUniform
    /\ xfArgs' = a
    /\ ret' = Call("SetTransformations", NoTag, NoArg, TRUE, 0)
    /\ UNCHANGED <<objVars, regVars, glVars, bindVars, texUniforms, state, matVars,
                   sceneVars>>

\* ------------------------------------------------ PrepareScene, RenderScene
\* the tags LoadSceneTextures registers
DeskTexture == 1
BlackBezzle == 2
Steel == 3
CupTexture == 4

\* LoadSceneTextures, SetupSceneLights, DefineObjectMaterials, the mesh loads
PrepareSceneCalls ==
    << [op |-> "CreateGLTexture", tag |-> DeskTexture],
       [op |-> "CreateGLTexture", tag |-> BlackBezzle],
       [op |-> "CreateGLTexture", tag |-> Steel],
       [op |-> "CreateGLTexture", tag |-> CupTexture],
       [op |-> "BindGLTextures"],
       [op |-> "SetupSceneLights"],
       [op |-> "DefineObjectMaterials"],
       [op |-> "LoadMesh", mesh |-> "Plane"],
       [op |-> "LoadMesh", mesh |-> "Box"],
       [op |-> "LoadMesh", mesh |-> "TaperedCylinder"],
       [op |-> "LoadMesh", mesh |-> "Torus"],
       [op |-> "LoadMesh", mesh |-> "Sphere"],
       [op |-> "LoadMesh", mesh |-> "Cylinder"] >>

\* The calls of RenderScene, object by object, in statement order.  Lengths
\* and colours are in hundredths (30.0f is 3000), angles in degrees.
Object01_WithColor ==
    << [op |-> "SetTransformations",
        a |-> [scaleXYZ |-> <<3000, 200, 1500>>,
              XrotationDegrees |-> 0, YrotationDegrees |-> 0, ZrotationDegrees |-> 0,
              positionXYZ |-> <<0, 0, 0>>]],
       [op |-> "SetShaderTexture", tag |-> DeskTexture],
       [op |-> "SetTextureUVScale", uv |-> <<100, 100>>],
       [op |-> "SetShaderMaterial", tag |-> "wood"],
       [op |-> "SetShaderColor", rgba |-> <<100, 100, 100, 100>>],
       [op |-> "Draw", mesh |-> "Plane"] >>

\* lines 523-547
Object01 ==
    << [op |-> "SetTransformations",
        a |-> [scaleXYZ |-> <<3000, 200, 1500>>,
              XrotationDegrees |-> 0, YrotationDegrees |-> 0, ZrotationDegrees |-> 0,
              positionXYZ |-> <<0, 0, 0>>]],
       [op |-> "SetShaderTexture", tag |-> DeskTexture],
       [op |-> "SetTextureUVScale", uv |-> <<100, 100>>],
       [op |-> "SetShaderMaterial", tag |-> "wood"],
       [op |-> "Draw", mesh |-> "Plane"] >>

\* lines 550-559
Object02 ==
    << [op |-> "SetTransformations",
        a |-> [scaleXYZ |-> <<3000, 200, 1500>>,
              XrotationDegrees |-> 90, YrotationDegrees |-> 0, ZrotationDegrees |-> 0,
              positionXYZ |-> <<0, 1500, -1500>>]],
       [op |-> "SetTransformations",
        a |-> [scaleXYZ |-> <<3000, 200, 1500>>,
              XrotationDegrees |-> 90, YrotationDegrees |-> 0, ZrotationDegrees |-> 0,
              positionXYZ |-> <<0, 1500, -1500>>]],
       [op |-> "SetShaderColor", rgba |-> <<90, 90, 90, 100>>],
       [op |-> "Draw", mesh |-> "Plane"] >>

\* lines 562-577
Object03 ==
    << [op |-> "SetTransformations",
        a |-> [scaleXYZ |-> <<1800, 50, 1100>>,
              XrotationDegrees |-> 90, YrotationDegrees |-> 0, ZrotationDegrees |-> 0,
              positionXYZ |-> <<0, 800, -700>>]],
       [op |-> "SetTransformations",
        a |-> [scaleXYZ |-> <<1800, 50, 1100>>,
              XrotationDegrees |-> 90, YrotationDegrees |-> 0, ZrotationDegrees |-> 0,
              positionXYZ |-> <<0, 800, -700>>]],
       [op |-> "SetShaderTexture", tag |-> BlackBezzle],
       [op |-> "SetShaderMaterial", tag |-> "metal"],
       [op |-> "SetTextureUVScale", uv |-> <<100, 100>>],
       [op |-> "Draw", mesh |-> "Box"] >>

\* lines 580-590
Object04 ==
    << [op |-> "SetTransformations",
        a |-> [scaleXYZ |-> <<1600, 70, 900>>,
              XrotationDegrees |-> 90, YrotationDegrees |-> 0, ZrotationDegrees |-> 0,
              positionXYZ |-> <<0, 800, -700>>]],
       [op |-> "SetTransformations",
        a |-> [scaleXYZ |-> <<1600, 70, 900>>,
              XrotationDegrees |-> 90, YrotationDegrees |-> 0, ZrotationDegrees |-> 0,
              positionXYZ |-> <<0, 800, -700>>]],
       [op |-> "SetShaderColor", rgba |-> <<100, 100, 100, 100>>],
       [op |-> "Draw", mesh |-> "Box"] >>

\* lines 592-607
Object05 ==
    << [op |-> "SetTransformations",
        a |-> [scaleXYZ |-> <<1800, 70, 100>>,
              XrotationDegrees |-> 90, YrotationDegrees |-> 0, ZrotationDegrees |-> 0,
              positionXYZ |-> <<0, 240, -700>>]],
       [op |-> "SetTransformations",
        a |-> [scaleXYZ |-> <<1800, 70, 100>>,
              XrotationDegrees |-> 90, YrotationDegrees |-> 0, ZrotationDegrees |-> 0,
              positionXYZ |-> <<0, 240, -700>>]],
       [op |-> "SetShaderTexture", tag |-> Steel],
       [op |-> "SetShaderMaterial", tag |-> "metal"],
       [op |-> "SetTextureUVScale", uv |-> <<100, 100>>],
       [op |-> "Draw", mesh |-> "Box"] >>

\* lines 610-619
Object06 ==
    << [op |-> "SetTransformations",
        a |-> [scaleXYZ |-> <<1800, 50, 1100>>,
              XrotationDegrees |-> 90, YrotationDegrees |-> 0, ZrotationDegrees |-> 0,
              positionXYZ |-> <<0, 800, -750>>]],
       [op |-> "SetTransformations",
        a |-> [scaleXYZ |-> <<1800, 50, 1100>>,
              XrotationDegrees |-> 90, YrotationDegrees |-> 0, ZrotationDegrees |-> 0,
              positionXYZ |-> <<0, 800, -750>>]],
       [op |-> "SetShaderColor", rgba |-> <<0, 0, 0, 100>>],
       [op |-> "Draw", mesh |-> "Box"] >>

\* lines 622-635
Object07 ==
    << [op |-> "SetTransformations",
        a |-> [scaleXYZ |-> <<500, 50, 600>>,
              XrotationDegrees |-> 90, YrotationDegrees |-> 0, ZrotationDegrees |-> 0,
              positionXYZ |-> <<0, 0, -700>>]],
       [op |-> "SetTransformations",
        a |-> [scaleXYZ |-> <<500, 50, 600>>,
              XrotationDegrees |-> 90, YrotationDegrees |-> 0, ZrotationDegrees |-> 0,
              positionXYZ |-> <<0, 0, -700>>]],
       [op |-> "SetShaderTexture", tag |-> Steel],
       [op |-> "SetTextureUVScale", uv |-> <<100, 100>>],
       [op |-> "Draw", mesh |-> "Box"] >>

\* lines 637-652
Object08 ==
    << [op |-> "SetTransformations",
        a |-> [scaleXYZ |-> <<800, 450, 150>>,
              XrotationDegrees |-> 90, YrotationDegrees |-> 0, ZrotationDegrees |-> 0,
              positionXYZ |-> <<0, 0, -600>>]],
       [op |-> "SetTransformations",
        a |-> [scaleXYZ |-> <<800, 450, 150>>,
              XrotationDegrees |-> 90, YrotationDegrees |-> 0, ZrotationDegrees |-> 0,
              positionXYZ |-> <<0, 0, -600>>]],
       [op |-> "SetShaderTexture", tag |-> Steel],
       [op |-> "SetShaderMaterial", tag |-> "metal"],
       [op |-> "SetTextureUVScale", uv |-> <<100, 100>>],
       [op |-> "Draw", mesh |-> "Box"] >>

\* lines 655-668
Object09 ==
    << [op |-> "SetTransformations",
        a |-> [scaleXYZ |-> <<180, 280, 180>>,
              XrotationDegrees |-> 180, YrotationDegrees |-> 0, ZrotationDegrees |-> 0,
              positionXYZ |-> <<-870, 300, -460>>]],
       [op |-> "SetShaderTexture", tag |-> CupTexture],
       [op |-> "SetShaderMaterial", tag |-> "glass"],
       [op |-> "SetTextureUVScale", uv |-> <<100, 100>>],
       [op |-> "Draw", mesh |-> "TaperedCylinder"] >>

\* lines 671-684
Object10 ==
    << [op |-> "SetTransformations",
        a |-> [scaleXYZ |-> <<80, 80, 30>>,
              XrotationDegrees |-> 0, YrotationDegrees |-> 0, ZrotationDegrees |-> 0,
              positionXYZ |-> <<-690, 130, -460>>]],
       [op |-> "SetShaderTexture", tag |-> CupTexture],
       [op |-> "SetShaderMaterial", tag |-> "glass"],
       [op |-> "SetTextureUVScale", uv |-> <<0, 0>>],
       [op |-> "Draw", mesh |-> "Torus"] >>

\* lines 687-699
Object11 ==
    << [op |-> "SetTransformations",
        a |-> [scaleXYZ |-> <<1180, 80, 380>>,
              XrotationDegrees |-> 0, YrotationDegrees |-> 0, ZrotationDegrees |-> 0,
              positionXYZ |-> <<-220, 0, 0>>]],
       [op |-> "SetTransformations",
        a |-> [scaleXYZ |-> <<1180, 80, 380>>,
              XrotationDegrees |-> 0, YrotationDegrees |-> 0, ZrotationDegrees |-> 0,
              positionXYZ |-> <<-220, 0, 0>>]],
       [op |-> "SetShaderColor", rgba |-> <<100, 100, 100, 100>>],
       [op |-> "Draw", mesh |-> "Box"] >>

\* lines 708-719
Object12 ==
    << [op |-> "SetTransformations",
        a |-> [scaleXYZ |-> <<160, 100, 20>>,
              XrotationDegrees |-> 0, YrotationDegrees |-> 90, ZrotationDegrees |-> 90,
              positionXYZ |-> <<620, 30, 0>>]],
       [op |-> "SetTransformations",
        a |-> [scaleXYZ |-> <<160, 100, 20>>,
              XrotationDegrees |-> 0, YrotationDegrees |-> 90, ZrotationDegrees |-> 90,
              positionXYZ |-> <<620, 30, 0>>]],
       [op |-> "SetShaderColor", rgba |-> <<100, 100, 100, 100>>],
       [op |-> "Draw", mesh |-> "Sphere"] >>

\* lines 723-734
Object13 ==
    << [op |-> "SetTransformations",
        a |-> [scaleXYZ |-> <<180, 280, 180>>,
              XrotationDegrees |-> 180, YrotationDegrees |-> 0, ZrotationDegrees |-> 0,
              positionXYZ |-> <<1120, 280, -530>>]],
       [op |-> "SetTransformations",
        a |-> [scaleXYZ |-> <<180, 280, 180>>,
              XrotationDegrees |-> 180, YrotationDegrees |-> 0, ZrotationDegrees |-> 0,
              positionXYZ |-> <<1120, 280, -530>>]],
       [op |-> "SetShaderColor", rgba |-> <<100, 100, 100, 100>>],
       [op |-> "Draw", mesh |-> "TaperedCylinder"] >>

\* lines 738-747
Object14 ==
    << [op |-> "SetTransformations",
        a |-> [scaleXYZ |-> <<20, 350, 20>>,
              XrotationDegrees |-> 5, YrotationDegrees |-> 15, ZrotationDegrees |-> 0,
              positionXYZ |-> <<1120, 100, -530>>]],
       [op |-> "SetTransformations",
        a |-> [scaleXYZ |-> <<20, 350, 20>>,
              XrotationDegrees |-> 5, YrotationDegrees |-> 15, ZrotationDegrees |-> 0,
              positionXYZ |-> <<1120, 100, -530>>]],
       [op |-> "SetShaderColor", rgba |-> <<0, 0, 0, 100>>],
       [op |-> "Draw", mesh |-> "Cylinder"] >>

\* lines 750-759
Object15 ==
    << [op |-> "SetTransformations",
        a |-> [scaleXYZ |-> <<20, 380, 20>>,
              XrotationDegrees |-> -13, YrotationDegrees |-> -10, ZrotationDegrees |-> 0,
              positionXYZ |-> <<1080, 130, -520>>]],
       [op |-> "SetTransformations",
        a |-> [scaleXYZ |-> <<20, 380, 20>>,
              XrotationDegrees |-> -13, YrotationDegrees |-> -10, ZrotationDegrees |-> 0,
              positionXYZ |-> <<1080, 130, -520>>]],
       [op |-> "SetShaderColor", rgba |-> <<0, 0, 0, 100>>],
       [op |-> "Draw", mesh |-> "Cylinder"] >>

\* lines 762-771
Object16 ==
    << [op |-> "SetTransformations",
        a |-> [scaleXYZ |-> <<20, 320, 20>>,
              XrotationDegrees |-> 7, YrotationDegrees |-> -5, ZrotationDegrees |-> 0,
              positionXYZ |-> <<1010, 190, -540>>]],
       [op |-> "SetTransformations",
        a |-> [scaleXYZ |-> <<20, 320, 20>>,
              XrotationDegrees |-> 7, YrotationDegrees |-> -5, ZrotationDegrees |-> 0,
              positionXYZ |-> <<1010, 190, -540>>]],
       [op |-> "SetShaderColor", rgba |-> <<0, 0, 0, 100>>],
       [op |-> "Draw", mesh |-> "Cylinder"] >>

\* lines 774-783
Object17 ==
    << [op |-> "SetTransformations",
        a |-> [scaleXYZ |-> <<350, 50, 250>>,
              XrotationDegrees |-> 0, YrotationDegrees |-> -5, ZrotationDegrees |-> 0,
              positionXYZ |-> <<-1300, 25, -500>>]],
       [op |-> "SetTransformations",
        a |-> [scaleXYZ |-> <<350, 50, 250>>,
              XrotationDegrees |-> 0, YrotationDegrees |-> -5, ZrotationDegrees |-> 0,
              positionXYZ |-> <<-1300, 25, -500>>]],
       [op |-> "SetShaderColor", rgba |-> <<0, 0, 0, 100>>],
       [op |-> "Draw", mesh |-> "Box"] >>

\* lines 786-795
Object18 ==
    << [op |-> "SetTransformations",
        a |-> [scaleXYZ |-> <<330, 40, 240>>,
              XrotationDegrees |-> 0, YrotationDegrees |-> 3, ZrotationDegrees |-> 0,
              positionXYZ |-> <<-1290, 75, -520>>]],
       [op |-> "SetTransformations",
        a |-> [scaleXYZ |-> <<330, 40, 240>>,
              XrotationDegrees |-> 0, YrotationDegrees |-> 3, ZrotationDegrees |-> 0,
              positionXYZ |-> <<-1290, 75, -520>>]],
       [op |-> "SetShaderColor", rgba |-> <<100, 100, 100, 100>>],
       [op |-> "Draw", mesh |-> "Box"] >>

\* lines 798-807
Object19 ==
    << [op |-> "SetTransformations",
        a |-> [scaleXYZ |-> <<320, 30, 230>>,
              XrotationDegrees |-> 0, YrotationDegrees |-> -7, ZrotationDegrees |-> 0,
              positionXYZ |-> <<-1320, 110, -480>>]],
       [op |-> "SetTransformations",
        a |-> [scaleXYZ |-> <<320, 30, 230>>,
              XrotationDegrees |-> 0, YrotationDegrees |-> -7, ZrotationDegrees |-> 0,
              positionXYZ |-> <<-1320, 110, -480>>]],
       [op |-> "SetShaderColor", rgba |-> <<0, 0, 0, 100>>],
       [op |-> "Draw", mesh |-> "Box"] >>

RenderSceneCalls ==
    Object01 \o Object02 \o Object03 \o Object04 \o Object05
      \o Object06 \o Object07 \o Object08 \o Object09 \o Object10
      \o Object11 \o Object12 \o Object13 \o Object14 \o Object15
      \o Object16 \o Object17 \o Object18 \o Object19

Program == PrepareSceneCalls \o RenderSceneCalls

\* the call after pc: the next statement, or the first one of RenderScene
\* again (the next frame) after its last
NextPc == IF pc = Len(Program) THEN Len(PrepareSceneCalls) + 1 ELSE pc + 1

InRenderScene == pc > Len(PrepareSceneCalls)

Advance(op) ==
    /\ pc' = NextPc
    /\ cycle' = IF ~InRenderScene THEN cycle
                ELSE IF cycle # <<>> /\ cycle[Len(cycle)] = "Draw" THEN <<op>>
                ELSE Append(cycle, op)

At(op) == Program[pc].op = op

\* ------------------------------------------------------------ specifications
\* Spec: the registry filled with pairwise distinct tags up to and past its
\* capacity (the i-th registration carries tag i).
BadChannelBudget(dec) ==
    (dec.image /\ ~ChannelsSupported(dec.colorChannels)) => stbImages < MaxBadChannel

Next ==
    \/ \E dec \in DecodeResults :
          BadChannelBudget(dec) /\ CreateGLTexture(dec, m_loadedTextures + 1) /\ UNCHANGED progVars
    \/ \E tag \in 0..(MaxTextures + 1) : FindTextureIDCall(tag) /\ UNCHANGED progVars
    \/ \E tag \in 0..(MaxTextures + 1) : FindTextureSlotCall(tag) /\ UNCHANGED progVars
    \/ Destructor /\ UNCHANGED progVars

Spec == Init /\ [][Next]_vars

\* SpecTags: a short run in which tags repeat and lookups miss.
NextTags ==
    \/ \E dec \in DecodeResults, tag \in 1..NumTags :
          /\ m_loadedTextures < MaxLoaded
          /\ BadChannelBudget(dec)
          /\ CreateGLTexture(dec, tag) /\ UNCHANGED progVars
    \/ \E tag \in 0..NumTags : FindTextureIDCall(tag) /\ UNCHANGED progVars
    \/ \E tag \in 0..NumTags : FindTextureSlotCall(tag) /\ UNCHANGED progVars
    \/ \E tag \in 0..NumTags : SetShaderTexture(tag) /\ UNCHANGED progVars
    \/ Destructor /\ UNCHANGED progVars

SpecTags == Init /\ [][NextTags]_vars

\* SpecBind: a short run of registrations, each followed or not by
\* BindGLTextures.
NextBind ==
    \/ \E dec \in DecodeResults, tag \in 1..NumTags :
          /\ m_loadedTextures < MaxLoaded
          /\ BadChannelBudget(dec)
          /\ CreateGLTexture(dec, tag) /\ UNCHANGED progVars
    \/ BindGLTextures /\ UNCHANGED progVars
    \/ Destructor /\ UNCHANGED progVars

SpecBind == Init /\ [][NextBind]_vars

\* SpecMat: FindMaterial and SetShaderMaterial over a vector of materials
\* (tags may repeat, with different colours), and DefineObjectMaterials.
MaterialTags == {"metal", "wood"}

LookupTags == {"metal", "wood", "glass", "plastic"}

MaterialInputs ==
    {[tag |-> t, diffuseColor |-> <<v, 0, 0>>, specularColor |-> <<0, v, 0>>,
      shininess |-> 10 * v] : t \in MaterialTags, v \in 1..NumVariants}

MaterialLists ==
    UNION {[1..n -> MaterialInputs] : n \in 0..MaxMaterials}

InitMat ==
    /\ Constructed
    /\ m_objectMaterials \in MaterialLists
    /\ modelUniform = ZeroMatrix
    /\ xfArgs = NoTransform

NextMat ==
    \/ Len(m_objectMaterials) <= MaxMaterials /\ DefineObjectMaterials /\ UNCHANGED progVars
    \/ \E tag \in LookupTags, m \in Indeterminate : FindMaterialCall(tag, m) /\ UNCHANGED progVars
    \/ \E tag \in LookupTags : SetShaderMaterial(tag) /\ UNCHANGED progVars
    \/ Destructor /\ UNCHANGED progVars

SpecMat == InitMat /\ [][NextMat]_vars

\* SpecXf: SetTransformations applied to every scale, rotation and translation
\* of the bounded input sets, over a model uniform that a previous upload may
\* or may not have written, and followed by calls for a second object.
Vec3(S) == {<<x, y, z>> : x \in S, y \in S, z \in S}

Angles == {90 * q : q \in 0..MaxQuarterTurns}

TransformInputs ==
    {[scaleXYZ |-> sc, XrotationDegrees |-> x, YrotationDegrees |-> y,
      ZrotationDegrees |-> z, positionXYZ |-> t] :
        sc \in Vec3(1..(MaxCoord + 1)), x \in Angles, y \in Angles, z \in Angles,
        t \in Vec3(0..MaxCoord)}

InitXf ==
    /\ Constructed
    /\ m_objectMaterials = <<>>
    /\ xfArgs \in TransformInputs
    /\ modelUniform \in {ZeroMatrix,
                         ModelView(<<2, 1, 1>>, 0, 90, 0, <<1, 0, 0>>)}

\* transforms of a second object, drawn after the first
FollowUps ==
    {NoTransform,
     [scaleXYZ |-> <<1, 2, 1>>, XrotationDegrees |-> 90, YrotationDegrees |-> 0,
      ZrotationDegrees |-> 90, positionXYZ |-> <<0, 1, 0>>]}

NextXf ==
    \/ SetTransformations(xfArgs.scaleXYZ, xfArgs.XrotationDegrees,
                          xfArgs.YrotationDegrees, xfArgs.ZrotationDegrees,
                          xfArgs.positionXYZ) /\ UNCHANGED progVars
    \/ \E a \in FollowUps :
          /\ ret.op = "SetTransformations"
          /\ SetTransformations(a.scaleXYZ, a.XrotationDegrees, a.YrotationDegrees,
                                a.ZrotationDegrees, a.positionXYZ) /\ UNCHANGED progVars
    \/ Destructor /\ UNCHANGED progVars

SpecXf == InitXf /\ [][NextXf]_vars

\* SpecRender: PrepareScene, then RenderScene frame after frame, statement by
\* statement; each texture file decodes or not, to any channel count.
NextRender ==
    \/ \E dec \in DecodeResults :
          /\ At("CreateGLTexture")
          /\ CreateGLTexture(dec, Program[pc].tag)
          /\ Advance("CreateGLTexture")
    \/ At("BindGLTextures") /\ BindGLTextures /\ Advance("BindGLTextures")
    \/ At("SetupSceneLights") /\ SetupSceneLights /\ Advance("SetupSceneLights")
    \/ /\ At("DefineObjectMaterials")
       /\ DefineObjectMaterials
       /\ Advance("DefineObjectMaterials")
    \/ At("LoadMesh") /\ LoadMesh(Program[pc].mesh) /\ Advance("LoadMesh")
    \/ /\ At("SetTransformations")
       /\ SetTransformationsOf(Program[pc].a)
       /\ Advance("SetTransformations")
    \/ /\ At("SetShaderColor")
       /\ SetShaderColor(Program[pc].rgba[1], Program[pc].rgba[2],
                         Program[pc].rgba[3], Program[pc].rgba[4])
       /\ Advance("SetShaderColor")
    \/ /\ At("SetShaderTexture")
       /\ SetShaderTexture(Program[pc].tag)
       /\ Advance("SetShaderTexture")
    \/ /\ At("SetTextureUVScale")
       /\ SetTextureUVScale(Program[pc].uv[1], Program[pc].uv[2])
       /\ Advance("SetTextureUVScale")
    \/ /\ At("SetShaderMaterial")
       /\ SetShaderMaterial(Program[pc].tag)
       /\ Advance("SetShaderMaterial")
    \/ At("Draw") /\ DrawMesh(Program[pc].mesh) /\ Advance("Draw")
    \/ Destructor /\ UNCHANGED progVars

SpecRender == Init /\ [][NextRender]_vars

\* ------------------------------------------------------------------- claims
PopulatedTags == {m_textureIDs[i].tag : i \in 0..(m_loadedTextures - 1)}

\* first-match reference: the lowest populated index holding the tag, else -1
RefSlot(tag) ==
    LET M == {i \in 0..(m_loadedTextures - 1) : m_textureIDs[i].tag = tag}
    IN  IF M = {} THEN -1 ELSE CHOOSE i \in M : \A j \in M : i <= j

RefID(tag) == IF RefSlot(tag) = -1 THEN -1 ELSE m_textureIDs[RefSlot(tag)].ID

\* C1: a CreateGLTexture call with a decodable 3- or 4-channel image made when
\* 16 textures are registered returns failure, leaves the count at 16, leaves
\* the 16 slots as they were and stores nothing outside slots 0..15.
C1_FullRegistryRejects ==
    [][(/\ state = "live"
        /\ m_loadedTextures = MaxTextures
        /\ ret'.op = "CreateGLTexture"
        /\ ret'.arg.image
        /\ ret'.arg.colorChannels \in {3, 4})
       => (/\ state' = "live"
           /\ ret'.ok = FALSE
           /\ m_loadedTextures' = MaxTextures
           /\ m_textureIDs' = m_textureIDs
           /\ overrun' = <<>>)]_vars

\* C3: a CreateGLTexture call whose image does not decode, or decodes to a
\* channel count other than 3 and 4, returns false and leaves the count, every
\* slot and so every FindTextureSlot / FindTextureID result as it was.
C3_FailedCallLeavesRegistry ==
    [][(/\ ret'.op = "CreateGLTexture"
        /\ (~ret'.arg.image \/ ret'.arg.colorChannels \notin {3, 4}))
       => (/\ ret'.ok = FALSE
           /\ m_loadedTextures' = m_loadedTextures
           /\ m_textureIDs' = m_textureIDs
           /\ \A tag \in 0..NumTags :
                 /\ FindTextureSlot(tag)' = FindTextureSlot(tag)
                 /\ FindTextureID(tag)' = FindTextureID(tag))]_vars

C3_Witness ==
    /\ ret.op = "CreateGLTexture"
    /\ ret.arg.image
    /\ ret.arg.colorChannels = 2
    /\ ~ret.ok
    /\ m_loadedTextures >= 1

\* C4: the destructor releases every texture name registered in slots
\* 0..count-1 and creates no texture object.
C4_TeardownReleases ==
    [][(state = "live" /\ state' = "destroyed")
       => (/\ glGenCount' = glGenCount
           /\ \A i \in 0..(m_loadedTextures - 1) :
                 m_textureIDs[i].ID \notin glTextures')]_vars

\* C5: FindTextureSlot and FindTextureID return the lowest populated index
\* holding the tag, respectively the handle stored there, and -1 when no
\* populated slot holds the tag.
C5_FirstMatchLookup ==
    /\ ret.op = "FindTextureSlot" => ret.val = RefSlot(ret.tag)
    /\ ret.op = "FindTextureID" => ret.val = RefID(ret.tag)

C5_Witness ==
    /\ ret.op = "FindTextureSlot"
    /\ Cardinality({i \in 0..(m_loadedTextures - 1) :
                       m_textureIDs[i].tag = ret.tag}) >= 2
    /\ ret.val = 0

DistinctTags(log) ==
    \A i, j \in 1..Len(log) : log[i].tag = log[j].tag => i = j

\* C6: after k <= 16 successful registrations with pairwise distinct tags,
\* whatever failed calls came in between, the count is k and the i-th
\* registered tag is found at slot i with the handle created for it.
C6_SlotsInRegistrationOrder ==
    (state = "live" /\ Len(registered) <= MaxTextures /\ DistinctTags(registered))
    => /\ m_loadedTextures = Len(registered)
       /\ \A i \in 1..Len(registered) :
             /\ FindTextureSlot(registered[i].tag) = i - 1
             /\ FindTextureID(registered[i].tag) = registered[i].ID

C6_Witness ==
    /\ state = "live"
    /\ Len(registered) = MaxTextures
    /\ stbImages >= 1
    /\ ret.op = "FindTextureSlot"
    /\ ret.val = MaxTextures - 1

\* C9: SetShaderTexture with a tag no populated slot holds leaves the
\* use-texture flag off and does not upload -1 as the sampler.
C9_UnknownTagSkipsTexturing ==
    (ret.op = "SetShaderTexture" /\ ret.tag \notin PopulatedTags)
    => (bUseTexture = FALSE /\ objectTexture # -1)

DefinedTags == {m_objectMaterials[i].tag : i \in 1..Len(m_objectMaterials)}

\* the first-inserted material carrying the tag
FirstMaterial(tag) ==
    m_objectMaterials[CHOOSE i \in 1..Len(m_objectMaterials) :
        /\ m_objectMaterials[i].tag = tag
        /\ \A j \in 1..(i - 1) : m_objectMaterials[j].tag # tag]

\* C2: FindMaterial with a tag no defined material carries returns false,
\* whatever the vector holds.
C2_MissReturnsFalse ==
    (ret.op = "FindMaterial" /\ ret.tag \notin DefinedTags) => ret.ok = FALSE

\* C7: FindMaterial with a defined tag returns true and leaves in the output
\* the diffuseColor, specularColor and shininess of the first-inserted
\* material carrying that tag.
C7_FirstInsertedMaterial ==
    (ret.op = "FindMaterial" /\ ret.tag \in DefinedTags)
    => /\ ret.ok = TRUE
       /\ Uniforms(ret.val) = Uniforms(FirstMaterial(ret.tag))

C7_Witness ==
    /\ ret.op = "FindMaterial"
    /\ ret.ok
    /\ \E i, j \in 1..Len(m_objectMaterials) :
          /\ i < j
          /\ m_objectMaterials[i].tag = ret.tag
          /\ m_objectMaterials[j].tag = ret.tag
          /\ Uniforms(m_objectMaterials[i]) # Uniforms(m_objectMaterials[j])
          /\ Uniforms(ret.val) = Uniforms(m_objectMaterials[i])

\* the values the material uniforms hold before any upload
DefaultUniforms ==
    [diffuseColor |-> <<0, 0, 0>>, specularColor |-> <<0, 0, 0>>, shininess |-> 0]

\* C10: SetShaderMaterial with a tag no defined material carries leaves the
\* three material uniforms as they were, or sets them to the fixed default.
C10_MissUploadsNothing ==
    [][(ret'.op = "SetShaderMaterial" /\ ret'.tag \notin DefinedTags)
       => (matUniform' = matUniform \/ matUniform' = DefaultUniforms)]_vars

\* a quarter turn about each axis, on a point
QuarterX(p) == <<p[1], -p[3], p[2]>>
QuarterY(p) == <<p[3], p[2], -p[1]>>
QuarterZ(p) == <<-p[2], p[1], p[3]>>

RECURSIVE TurnX(_, _)
TurnX(q, p) == IF q = 0 THEN p ELSE TurnX(q - 1, QuarterX(p))
RECURSIVE TurnY(_, _)
TurnY(q, p) == IF q = 0 THEN p ELSE TurnY(q - 1, QuarterY(p))
RECURSIVE TurnZ(_, _)
TurnZ(q, p) == IF q = 0 THEN p ELSE TurnZ(q - 1, QuarterZ(p))

\* scale first, then rotate about X, then Y, then Z, then translate
Placed(a, p) ==
    LET s == <<a.scaleXYZ[1] * p[1], a.scaleXYZ[2] * p[2], a.scaleXYZ[3] * p[3]>>
        r == TurnZ(a.ZrotationDegrees \div 90,
               TurnY(a.YrotationDegrees \div 90,
                 TurnX(a.XrotationDegrees \div 90, s)))
    IN  <<r[1] + a.positionXYZ[1], r[2] + a.positionXYZ[2], r[3] + a.positionXYZ[3]>>

\* the matrix applied to the point (p, 1)
Apply(M, p) ==
    [r \in 1..4 |-> M[r][1] * p[1] + M[r][2] * p[2] + M[r][3] * p[3] + M[r][4]]

ProbePoints == {<<0, 0, 0>>, <<1, 0, 0>>, <<0, 1, 0>>, <<0, 0, 1>>}

\* C8: the matrix SetTransformations uploads maps every point as scaling it,
\* rotating it about X, then Y, then Z, and translating it does (it is
\* T * Rz * Ry * Rx * S), whatever the model uniform held before the call.
C8_ModelMatrixOrder ==
    ret.op = "SetTransformations"
    => \A p \in ProbePoints :
          Apply(modelUniform, p) =
             <<Placed(xfArgs, p)[1], Placed(xfArgs, p)[2], Placed(xfArgs, p)[3], 1>>

C8_Witness ==
    /\ ret.op = "SetTransformations"
    /\ xfArgs = [scaleXYZ |-> <<2, 1, 1>>, XrotationDegrees |-> 90,
                 YrotationDegrees |-> 90, ZrotationDegrees |-> 0,
                 positionXYZ |-> <<1, 0, 0>>]
    /\ Apply(modelUniform, <<0, 1, 0>>) = <<2, 0, 0, 1>>

UniqueSlotTags ==
    \A i, j \in 0..(m_loadedTextures - 1) :
        m_textureIDs[i].tag = m_textureIDs[j].tag => i = j

\* C11 (as claimed): whatever tags the CreateGLTexture calls carried, no two
\* populated slots hold the same tag.
C11_TagsAlwaysUnique == state = "live" => UniqueSlotTags

\* C11 (amended): no two populated slots hold the same tag exactly when the
\* calls that registered a texture carried pairwise distinct tags; a call that
\* repeats a registered tag fills a further slot with it.
C11_UniqueIffDistinctCalls ==
    state = "live" => (UniqueSlotTags <=> DistinctTags(registered))

C11_Witness ==
    /\ state = "live"
    /\ ret.op = "CreateGLTexture"
    /\ ret.ok
    /\ m_loadedTextures >= 2
    /\ DistinctTags(registered)
    /\ UniqueSlotTags

\* C12: BindGLTextures binds the handle of every populated slot i to texture
\* unit i, leaves every other unit's binding and the registry as they were,
\* and so gives the same unit-to-handle assignment when called again.
C12_BindSlotToUnit ==
    [][ret'.op = "BindGLTextures"
       => (/\ \A u \in 0..(MaxTextures - 1) :
                glUnits'[u] = IF u < m_loadedTextures THEN m_textureIDs[u].ID
                                                      ELSE glUnits[u]
           /\ m_textureIDs' = m_textureIDs
           /\ m_loadedTextures' = m_loadedTextures
           /\ BindLoop([active |-> glActive', units |-> glUnits'], 0).units = glUnits')]_vars

C12_Witness ==
    /\ ret.op = "BindGLTextures"
    /\ m_loadedTextures = 2
    /\ glUnits[0] = m_textureIDs[0].ID
    /\ glUnits[1] = m_textureIDs[1].ID
    /\ glUnits[0] # glUnits[1]
    /\ glUnits[2] = 0

\* the calls of a cycle between its leading SetTransformations and its draw
Shading(c) ==
    LET body == SubSeq(c, 1, Len(c) - 1)
        lead == {n \in 0..Len(body) :
                    \A i \in 1..n : body[i] = "SetTransformations"}
        n == CHOOSE k \in lead : \A j \in lead : j <= k
    IN  [transforms |-> n, rest |-> SubSeq(body, n + 1, Len(body))]

ClaimedShadings ==
    { <<"SetShaderColor">>,
      <<"SetShaderColor", "SetShaderMaterial">>,
      <<"SetShaderTexture", "SetTextureUVScale">>,
      <<"SetShaderTexture", "SetTextureUVScale", "SetShaderMaterial">> }

DrawnNow == cycle # <<>> /\ cycle[Len(cycle)] = "Draw"

\* C13 (as claimed): at every draw of RenderScene the calls since the previous
\* draw are one or more SetTransformations, then either SetShaderColor or
\* SetShaderTexture with SetTextureUVScale, then optionally SetShaderMaterial.
C13_CycleInClaimedOrder ==
    DrawnNow => /\ Shading(cycle).transforms >= 1
                /\ Shading(cycle).rest \in ClaimedShadings

\* C13 (amended): as claimed, except that the material upload of a textured
\* object may also come between SetShaderTexture and SetTextureUVScale.
C13_CycleOrder ==
    DrawnNow => /\ Shading(cycle).transforms >= 1
                /\ Shading(cycle).rest \in ClaimedShadings \cup
                      { <<"SetShaderTexture", "SetShaderMaterial",
                          "SetTextureUVScale">> }

C13_Witness ==
    /\ ret.op = "Draw"
    /\ cycle = <<"SetTransformations", "SetTransformations", "SetShaderTexture",
                 "SetShaderMaterial", "SetTextureUVScale", "Draw">>
    /\ bUseTexture

\* C14: every texture object CreateGLTexture created is registered in a slot
\* or deleted, and every image buffer it decoded is freed, on every return path.
C14_NothingLeaked ==
    (state = "live" /\ ret.op = "CreateGLTexture")
    => /\ stbImages = 0
       /\ glTextures \subseteq {m_textureIDs[i].ID : i \in 0..(m_loadedTextures - 1)}

====
